---- MODULE Spec2Model ----
(***************************************************************************)
(* A model of src/pdf_compressor/pdf_utils.py: the extraction of text      *)
(* fragments with their positions, the grouping of fragments into          *)
(* PDFSections, the concurrent summarisation of the sections, and the      *)
(* composition of the annotated output document with its sidebar.          *)
(*                                                                         *)
(* Python strings are sequences of one-character strings, so that strip,   *)
(* split, replace and concatenation are computed as the code computes      *)
(* them.  Python tuples are indexed from 0 and TLA+ tuples from 1:         *)
(* position[1] of the code (y0) is position[2] here.  Vertical positions   *)
(* of the sidebar are in tenths of a point (LINE_HEIGHT * 1.2 = 16.8).     *)
(***************************************************************************)
EXTENDS Integers, Sequences, FiniteSets, TLC

\* ------------------------------------------------------------- bounds
\* The most pages a document of the model has.
MaxPages == 2
\* The most text fragments the visitor reports over the whole document.
MaxFrags == 3

\* The longest string given to the word wrap on its own.
MaxLen == 13

\* ------------------------------------------------------ python helpers
None == <<>>

Abs(n) == IF n < 0 THEN -n ELSE n

Min2(a, b) == IF a <= b THEN a ELSE b

Max2(a, b) == IF a >= b THEN a ELSE b

\* The characters str.strip() and str.split() treat as white space.
Whitespace == {" ", "\n", "\t"}

\* Op applied to the value of v, which is computed once.
Eval(v, Op(_)) == CHOOSE r \in {Op(x) : x \in {v}} : TRUE

\* The positions of a sequence, in order.
Indices(s) == [i \in 1..Len(s) |-> i]

\* str.strip(): s without its leading and trailing white space.
Strip(s0) ==
    Eval(s0, LAMBDA s :
        Eval(SelectSeq(Indices(s), LAMBDA i : s[i] \notin Whitespace), LAMBDA inked :
            IF inked = <<>> THEN <<>> ELSE SubSeq(s, inked[1], inked[Len(inked)])))

\* str.split(): the maximal runs of characters that are not white space.
Split(s0) ==
    Eval(s0, LAMBDA s :
        Eval(SelectSeq(Indices(s), LAMBDA i :
                 s[i] \notin Whitespace /\ (i = 1 \/ s[i - 1] \in Whitespace)),
             LAMBDA starts :
        Eval(SelectSeq(Indices(s), LAMBDA i :
                 s[i] \notin Whitespace /\ (i = Len(s) \/ s[i + 1] \in Whitespace)),
             LAMBDA ends :
            [k \in 1..Len(starts) |-> SubSeq(s, starts[k], ends[k])])))

\* str.split('\n'): the parts between line breaks, at least one part.
SplitLines(s0) ==
    Eval(s0, LAMBDA s :
        Eval(<<0>> \o SelectSeq(Indices(s), LAMBDA i : s[i] = "\n") \o <<Len(s) + 1>>,
             LAMBDA cuts :
            [k \in 1..(Len(cuts) - 1) |-> SubSeq(s, cuts[k] + 1, cuts[k + 1] - 1)]))

\* str.replace(old, ''): every occurrence of old removed.  The prefixes it
\* is called with cannot overlap themselves, so the occurrences are disjoint.
Remove(s0, old) ==
    Eval(s0, LAMBDA s :
        Eval({i \in 1..(Len(s) - Len(old) + 1) : SubSeq(s, i, i + Len(old) - 1) = old},
             LAMBDA occ :
        Eval(SelectSeq(Indices(s), LAMBDA j : \A i \in occ : j < i \/ j >= i + Len(old)),
             LAMBDA kept :
            [k \in 1..Len(kept) |-> s[kept[k]]])))

\* ---------------------------------------------------------------- state
VARIABLES
    pc,                  \* where process_pdf_with_summaries stands
    num_pages,           \* len(reader.pages) of the input document
    page_num,            \* the page extract_text_with_positions is on
    text_with_positions, \* the fragments the visitor reported for the page
    idx,                 \* the next fragment the grouping loop takes
    current_text,        \* the accumulator's text
    current_position,    \* the accumulator's box, or None
    sections,            \* the PDFSections, in creation order
    nfrags,              \* fragments reported so far (bounded by MaxFrags)
    current_frags,       \* history: the fragments merged into the accumulator
    groups,              \* history: every closed accumulator, in order
    sidx,                \* the section the scheduling loop is on
    summary_tasks,       \* the (section, task) pairs, in creation order
    aidx,                \* the pair the awaiting loop is on
    cidx,                \* the page the composition loop is on
    writer_pages,        \* writer.pages
    output_buffer,       \* the returned buffer's pages, or None
    wrap_text,           \* the string a wrap loop is given
    wrap_kind,           \* which wrap loop ran on it: "none", "title", "content"
    wrapped,             \* the lines the wrap loop produced
    error,               \* the exception process_pdf_with_summaries raised, or None
    response,            \* what PDFSummarizerView.post returned, or None
    summary_writes,      \* history: the sections whose summary was assigned, in order
    other_steps,         \* steps another request's coroutine took on the event loop
    given_summaries,     \* the list of (j, section) a sidebar is created from
    canvas,              \* what create_summary_sidebar drew, and its last cursor
    drawn                \* whether create_summary_sidebar returned

extract_vars == <<page_num, text_with_positions, idx, current_text,
                  current_position, sections, nfrags, current_frags, groups>>

summary_vars == <<sidx, summary_tasks, aidx>>

compose_vars == <<cidx, writer_pages, output_buffer>>

wrap_vars == <<wrap_text, wrap_kind, wrapped>>

sidebar_vars == <<given_summaries, canvas, drawn>>

\* The variables of the functions explored on their own.
pure_vars == <<wrap_vars, sidebar_vars>>

request_vars == <<error, response, summary_writes, other_steps>>

\* ------------------------------------------------------------ extraction
\* The paragraph heuristic's threshold on the difference of y0.
PROXIMITY_THRESHOLD == 20

\* The height and the width per character when the font size is missing.
DEFAULT_FONT_SIZE == 12

PDFSection(text, page, position) ==
    [text |-> text, page |-> page, position |-> position, summary |-> <<>>]

\* The visitor's fragment for one span: fontDict is keyed by names, so
\* fontDict.get(ord(c), 1000) is 1000 for every character.
visitor_body(text, x, y, fontSize) ==
    LET height == IF fontSize # 0 THEN fontSize ELSE DEFAULT_FONT_SIZE
        width  == IF fontSize # 0 THEN (Len(text) * 1000 * fontSize) \div 1000
                                  ELSE Len(text) * DEFAULT_FONT_SIZE
    IN  [text |-> text, position |-> <<x, y, x + width, y + height>>]

SameParagraphWrongIndex(position, current) ==
    Abs(position[1] - current[1]) < PROXIMITY_THRESHOLD

SameParagraphInclusive(position, current) ==
    Abs(position[2] - current[2]) <= PROXIMITY_THRESHOLD

\* Whether a fragment belongs to the accumulator's paragraph.
SameParagraph(position, current) ==
    Abs(position[2] - current[2]) < PROXIMITY_THRESHOLD

UnionBoxMinX1(a, b) ==
    <<Min2(a[1], b[1]), Min2(a[2], b[2]), Min2(a[3], b[3]), Max2(a[4], b[4])>>

\* The accumulator's box grown by a fragment's box.
UnionBox(a, b) ==
    <<Min2(a[1], b[1]), Min2(a[2], b[2]), Max2(a[3], b[3]), Max2(a[4], b[4])>>

\* sections.append(section)
AppendSection(secs, s) == Append(secs, s)

\* A closed accumulator: its page, its fragments (index on the page and box)
\* and whether a PDFSection was appended for it.
Group(page, frags, emitted) == [page |-> page, frags |-> frags, emitted |-> emitted]

\* The top of the loop over reader.pages: the next page's extract_text starts,
\* or the sections are returned.
NextPage ==
    /\ pc = "page"
    /\ IF page_num < num_pages
       THEN /\ pc' = "visit"
            /\ text_with_positions' = <<>>
            /\ UNCHANGED <<page_num, sections>>
       ELSE /\ pc' = "schedule"
            /\ UNCHANGED <<page_num, text_with_positions, sections>>
    /\ UNCHANGED <<num_pages, pure_vars, request_vars, idx, current_text, current_position, nfrags,
                   current_frags, groups, summary_vars, compose_vars>>

\* page.extract_text calls the visitor for one more span of the page.
Visit(text, x, y, fontSize) ==
    /\ pc = "visit"
    /\ nfrags < MaxFrags
    /\ text_with_positions' =
           Append(text_with_positions, visitor_body(text, x, y, fontSize))
    /\ nfrags' = nfrags + 1
    /\ UNCHANGED <<pc, num_pages, pure_vars, request_vars, page_num, idx, current_text,
                   current_position,
                   sections, current_frags, groups, summary_vars, compose_vars>>

\* page.extract_text returns; the grouping of the page's fragments starts.
StartGrouping ==
    /\ pc = "visit"
    /\ pc' = "group"
    /\ idx' = 1
    /\ current_text' = <<>>
    /\ current_position' = None
    /\ current_frags' = <<>>
    /\ UNCHANGED <<num_pages, pure_vars, request_vars, page_num, text_with_positions,
                   sections, nfrags, groups,
                   summary_vars, compose_vars>>

\* One iteration of the loop over text_with_positions.
GroupStep ==
    /\ pc = "group"
    /\ idx <= Len(text_with_positions)
    /\ LET text     == text_with_positions[idx].text
           position == text_with_positions[idx].position
           frag     == [page |-> page_num, idx |-> idx, position |-> position]
           cp       == IF current_position = None THEN position ELSE current_position
       IN  IF cp # None /\ SameParagraph(position, cp)
           THEN /\ current_text' = current_text \o <<" ">> \o text
                /\ current_position' = UnionBox(cp, position)
                /\ current_frags' = Append(current_frags, frag)
                /\ UNCHANGED <<sections, groups>>
           ELSE /\ sections' =
                       IF current_text # <<>>
                       THEN AppendSection(sections,
                                PDFSection(Strip(current_text), page_num, cp))
                       ELSE sections
                /\ groups' = Append(groups,
                       Group(page_num, current_frags, current_text # <<>>))
                /\ current_text' = text
                /\ current_position' = position
                /\ current_frags' = <<frag>>
    /\ idx' = idx + 1
    /\ UNCHANGED <<pc, num_pages, pure_vars, request_vars, page_num, text_with_positions, nfrags,
                   summary_vars, compose_vars>>

\* The end of the page: the open accumulator is flushed as a last section.
FlushPage ==
    /\ pc = "group"
    /\ idx > Len(text_with_positions)
    /\ sections' =
           IF current_text # <<>>
           THEN AppendSection(sections,
                    PDFSection(Strip(current_text), page_num, current_position))
           ELSE sections
    /\ groups' = IF current_frags # <<>>
                 THEN Append(groups, Group(page_num, current_frags, current_text # <<>>))
                 ELSE groups
    /\ current_frags' = <<>>
    /\ page_num' = page_num + 1
    /\ pc' = "page"
    /\ UNCHANGED <<num_pages, pure_vars, request_vars, text_with_positions, idx, current_text,
                   current_position, nfrags, summary_vars, compose_vars>>

\* ------------------------------------------------------ errors, replies
\* No exception raised: the stages that wrapped it, outermost first, and the
\* diagnostic of the fault.
NoError == [raised_by |-> <<>>, diagnostic |-> ""]

\* The faults the PDF parser reports, by their diagnostic.
ParserFaults == {"EOF marker not found", "Invalid Elementary Object"}

WrapErrorBare(stage, e) == [raised_by |-> <<stage>> \o e.raised_by, diagnostic |-> ""]

\* raise Exception(f"Error ...: {str(e)}"): the exception a stage raises for
\* an exception e it caught, whose text it carries.
WrapError(stage, e) ==
    [raised_by |-> <<stage>> \o e.raised_by, diagnostic |-> e.diagnostic]

\* No response returned yet by the view.
NoResponse == [status |-> "", sections |-> <<>>]

\* PdfReader(pdf_file), before the first page, or page.extract_text raises:
\* extract_text_with_positions raises an exception with the diagnostic, and
\* process_pdf_with_summaries, awaiting it, raises one again.
ExtractFail(fault) ==
    /\ \/ pc = "page" /\ page_num = 0
       \/ pc = "visit"
    /\ pc' = "error"
    /\ error' = WrapError("process_pdf_with_summaries",
                          WrapError("extract_text_with_positions",
                                    [raised_by |-> <<>>, diagnostic |-> fault]))
    /\ UNCHANGED <<num_pages, pure_vars, extract_vars, summary_vars, compose_vars,
                   response, summary_writes, other_steps>>

\* ------------------------------------------- the section builder alone
\* The spans whose grouping is explored: both sides of the threshold
\* (differences 0, 5, 15 and 20), two left edges, empty and non-empty text.
BuildTexts == {<<>>, <<"a">>}
BuildXs == {10, 30}
BuildYs == {75, 80, 95}
BuildFontSizes == {10}

VisitBuild ==
    \E text \in BuildTexts, x \in BuildXs, y \in BuildYs, fontSize \in BuildFontSizes :
        Visit(text, x, y, fontSize)

Init ==
    /\ pc = "page"
    /\ num_pages \in 0..MaxPages
    /\ page_num = 0
    /\ text_with_positions = <<>>
    /\ idx = 1
    /\ current_text = <<>>
    /\ current_position = None
    /\ sections = <<>>
    /\ nfrags = 0
    /\ current_frags = <<>>
    /\ groups = <<>>
    /\ sidx = 1
    /\ summary_tasks = <<>>
    /\ aidx = 1
    /\ cidx = 0
    /\ writer_pages = <<>>
    /\ output_buffer = None
    /\ wrap_text = <<>>
    /\ wrap_kind = "none"
    /\ wrapped = <<>>
    /\ error = NoError
    /\ response = NoResponse
    /\ summary_writes = <<>>
    /\ other_steps = 0
    /\ given_summaries = <<>>
    /\ canvas = [ops |-> <<>>, y |-> 0]
    /\ drawn = FALSE

vars == <<pc, num_pages, extract_vars, summary_vars, compose_vars, pure_vars,
          request_vars>>

NextBuild ==
    \/ NextPage
    \/ VisitBuild
    \/ StartGrouping
    \/ GroupStep
    \/ FlushPage

SpecBuild == Init /\ [][NextBuild]_vars

\* ------------------------------------------------ grouping: the claims
\* Every accumulator: the closed ones and, inside the loop, the open one.
AllGroups ==
    groups \o (IF pc = "group" /\ current_frags # <<>>
               THEN <<Group(page_num, current_frags, FALSE)>> ELSE <<>>)

\* The closed accumulators a PDFSection was appended for: the k-th of them
\* is sections[k].
EmittedGroups == SelectSeq(groups, LAMBDA g : g.emitted)

Y0(f) == f.position[2]

\* The least y0 of the first m fragments of a list: the accumulator's y0
\* after they were merged.
MinY0(frags, m) ==
    CHOOSE y \in {Y0(frags[i]) : i \in 1..m} :
        \A i \in 1..m : y <= Y0(frags[i])

\* The least and the greatest of a non-empty set of numbers.
Least(S) == CHOOSE v \in S : \A w \in S : v <= w

Greatest(S) == CHOOSE v \in S : \A w \in S : v >= w

\* The coordinate-wise union of the boxes of a non-empty list of fragments.
BoxUnion(frags) ==
    <<Least({frags[i].position[1] : i \in 1..Len(frags)}),
      Least({frags[i].position[2] : i \in 1..Len(frags)}),
      Greatest({frags[i].position[3] : i \in 1..Len(frags)}),
      Greatest({frags[i].position[4] : i \in 1..Len(frags)})>>

Encloses(box, inner) ==
    /\ box[1] <= inner[1]
    /\ box[2] <= inner[2]
    /\ box[3] >= inner[3]
    /\ box[4] >= inner[4]

SectionsAreEmittedGroups ==
    /\ Len(EmittedGroups) = Len(sections)
    /\ \A k \in 1..Len(sections) :
           sections[k].position = BoxUnion(EmittedGroups[k].frags)

\* C1 as the spec states it: any two fragments of one page whose y0 differ by
\* less than 20 are in the same section, and a section's position is the
\* union of the boxes of its fragments.
C1_AnyCloseFragmentsShareSection ==
    /\ \A g1, g2 \in 1..Len(AllGroups) :
           AllGroups[g1].page = AllGroups[g2].page =>
               \A i \in 1..Len(AllGroups[g1].frags), j \in 1..Len(AllGroups[g2].frags) :
                   Abs(Y0(AllGroups[g1].frags[i]) - Y0(AllGroups[g2].frags[j])) < 20
                       => g1 = g2
    /\ SectionsAreEmittedGroups

\* C1 amended: a fragment whose y0 differs by less than 20 from the
\* accumulator's y0 (the least y0 of the fragments merged into the open
\* section so far) is merged into that section: where a page's fragment
\* starts a new accumulator, its y0 is 20 or more from the least y0 of the
\* accumulator before it.  And every section's position is the coordinate-wise
\* union of the boxes of the fragments merged into it.
C1_CloseToAccumulatorMerges ==
    /\ \A g \in 1..(Len(AllGroups) - 1) :
           AllGroups[g].page = AllGroups[g + 1].page =>
               Abs(Y0(AllGroups[g + 1].frags[1])
                   - MinY0(AllGroups[g].frags, Len(AllGroups[g].frags))) >= 20
    /\ SectionsAreEmittedGroups

\* C1 witness: extraction returned a section that merged two fragments whose
\* union is neither fragment's own box.
C1_Witness ==
    /\ pc = "schedule"
    /\ \E k \in 1..Len(sections) :
           /\ Len(EmittedGroups[k].frags) >= 2
           /\ \A i \in 1..Len(EmittedGroups[k].frags) :
                  EmittedGroups[k].frags[i].position # sections[k].position

\* Whether fragments i < j of a list are bridged: some fragments between them
\* in the sequence form, with i and j, a chain whose neighbours are less than
\* 20 apart in y0.
Bridged(frags, i, j) ==
    \E S \in (SUBSET ((i + 1)..(j - 1))) \ {{}} :
        LET chain == S \cup {i, j}
        IN  \A a \in chain \ {j} :
                LET b == CHOOSE c \in chain : c > a /\ \A d \in chain : d > a => c <= d
                IN  Abs(Y0(frags[a]) - Y0(frags[b])) < 20

\* The fragments of page p seen so far, in the order of the sequence.
RECURSIVE Flatten(_, _, _)
Flatten(gs, p, g) ==
    IF g > Len(gs) THEN <<>>
    ELSE (IF gs[g].page = p THEN [i \in 1..Len(gs[g].frags) |->
                                     [group |-> g, position |-> gs[g].frags[i].position]]
                             ELSE <<>>)
         \o Flatten(gs, p, g + 1)

\* C2 as the spec states it: two fragments of one page whose y0 differ by 20
\* or more, with no fragment between them bridging the gap, are in different
\* sections.
C2_FarFragmentsAreSeparated ==
    \A p \in 0..(MaxPages - 1) :
        LET frags == Flatten(AllGroups, p, 1)
        IN  \A i, j \in 1..Len(frags) :
                (i < j /\ Abs(Y0(frags[i]) - Y0(frags[j])) >= 20 /\ ~Bridged(frags, i, j))
                    => frags[i].group # frags[j].group

\* C2 amended: a fragment whose y0 differs by 20 or more from the
\* accumulator's y0 (the least y0 of the fragments merged into the open
\* section so far) is never merged into that section: every fragment of an
\* accumulator after the first is less than 20 from the least y0 of the
\* fragments before it.
C2_FarFromAccumulatorSplits ==
    \A g \in 1..Len(AllGroups) :
        \A m \in 2..Len(AllGroups[g].frags) :
            Abs(Y0(AllGroups[g].frags[m]) - MinY0(AllGroups[g].frags, m - 1)) < 20

\* C2 witness: extraction returned two sections of one page, the second
\* started by a fragment 20 or more from the first one's accumulator.
C2_Witness ==
    /\ pc = "schedule"
    /\ \E k \in 1..(Len(sections) - 1) :
           /\ sections[k].page = sections[k + 1].page
           /\ Abs(Y0(EmittedGroups[k + 1].frags[1]) - sections[k].position[2]) >= 20

\* C8: at every step of the grouping loop the accumulator's box encloses the
\* box of every fragment merged into it, every emitted section's position
\* encloses the boxes of its fragments, and the fragments of one section all
\* come from the section's page.
C8_BoxEnclosesMergedFragments ==
    /\ pc = "group" =>
           \A i \in 1..Len(current_frags) :
               /\ Encloses(current_position, current_frags[i].position)
               /\ current_frags[i].page = page_num
    /\ Len(EmittedGroups) = Len(sections)
    /\ \A k \in 1..Len(sections) :
           \A i \in 1..Len(EmittedGroups[k].frags) :
               /\ Encloses(sections[k].position, EmittedGroups[k].frags[i].position)
               /\ EmittedGroups[k].frags[i].page = sections[k].page

\* C8 witness: a section of the second page that merged two fragments with
\* different boxes.
C8_Witness ==
    \E k \in 1..Len(sections) :
        /\ sections[k].page = 1
        /\ Len(EmittedGroups[k].frags) >= 2
        /\ EmittedGroups[k].frags[1].position # EmittedGroups[k].frags[2].position

\* --------------------------------------------------------- summarisation
\* Sections with more words than this are sent to the summarizer.
SUMMARY_WORD_LIMIT == 20

\* "Error generating summary"
SENTINEL ==
    <<"E", "r", "r", "o", "r", " ", "g", "e", "n", "e", "r", "a", "t", "i", "n", "g",
      " ", "s", "u", "m", "m", "a", "r", "y">>

\* What the chat completion request of one summarize_text call comes to: an
\* exception (network error, malformed response), or a message content.
APIError == [kind |-> "error", content |-> <<>>]

APIContent(content) == [kind |-> "content", content |-> content]

summarize_text_uncaught(text, reply) ==
    IF reply.kind = "content"
    THEN [raised |-> FALSE, value |-> Strip(reply.content)]
    ELSE [raised |-> TRUE, value |-> <<>>]

\* summarize_text: the stripped content, or the sentinel when anything raised.
summarize_text(text, reply) ==
    IF reply.kind = "content"
    THEN [raised |-> FALSE, value |-> Strip(reply.content)]
    ELSE [raised |-> FALSE, value |-> SENTINEL]

needs_summary_inclusive(text) == Len(Split(text)) >= SUMMARY_WORD_LIMIT

\* len(section.text.split()) > 20
needs_summary(text) == Len(Split(text)) > SUMMARY_WORD_LIMIT

\* An assignment to section.summary, as it is logged in summary_writes.
SummaryWrite(k, value) == [section |-> k, value |-> value]

ScheduleStepPlaceholder ==
    /\ pc = "schedule"
    /\ sidx <= Len(sections)
    /\ IF needs_summary(sections[sidx].text)
       THEN summary_tasks' = Append(summary_tasks,
                   [section |-> sidx, text |-> sections[sidx].text, state |-> "created",
                    calls |-> 0, failed |-> FALSE,
                    result |-> [raised |-> FALSE, value |-> <<>>]])
       ELSE UNCHANGED summary_tasks
    /\ sections' = [sections EXCEPT ![sidx].summary = sections[sidx].text]
    /\ summary_writes' = Append(summary_writes, SummaryWrite(sidx, sections[sidx].text))
    /\ sidx' = sidx + 1
    /\ UNCHANGED <<pc, num_pages, pure_vars, error, response, other_steps, page_num,
                   text_with_positions, idx, current_text,
                   current_position, nfrags, current_frags, groups, aidx, compose_vars>>

\* One iteration of the loop over the sections: a task is created for a long
\* section, a short section's summary is its text.
ScheduleStep ==
    /\ pc = "schedule"
    /\ sidx <= Len(sections)
    /\ IF needs_summary(sections[sidx].text)
       THEN /\ summary_tasks' = Append(summary_tasks,
                   [section |-> sidx, text |-> sections[sidx].text, state |-> "created",
                    calls |-> 0, failed |-> FALSE,
                    result |-> [raised |-> FALSE, value |-> <<>>]])
            /\ UNCHANGED <<sections, summary_writes>>
       ELSE /\ sections' = [sections EXCEPT ![sidx].summary = sections[sidx].text]
            /\ summary_writes' = Append(summary_writes,
                                        SummaryWrite(sidx, sections[sidx].text))
            /\ UNCHANGED summary_tasks
    /\ sidx' = sidx + 1
    /\ UNCHANGED <<pc, num_pages, pure_vars, error, response, other_steps, page_num,
                   text_with_positions, idx, current_text,
                   current_position, nfrags, current_frags, groups, aidx, compose_vars>>

\* The scheduling loop is over: the coroutine goes on to await the tasks.
StartAwait ==
    /\ pc = "schedule"
    /\ sidx > Len(sections)
    /\ pc' = "await"
    /\ UNCHANGED <<num_pages, pure_vars, request_vars, extract_vars, summary_vars, compose_vars>>

\* The event loop starts a created task, in creation order, while the
\* coroutine is suspended in an await: its request is issued.
TaskCall(t) ==
    /\ pc = "await"
    /\ summary_tasks[t].state = "created"
    /\ \A u \in 1..(t - 1) : summary_tasks[u].state # "created"
    /\ summary_tasks' = [summary_tasks EXCEPT ![t].state = "called",
                                              ![t].calls = @ + 1]
    /\ UNCHANGED <<pc, num_pages, pure_vars, request_vars, extract_vars, sidx, aidx, compose_vars>>

TaskFinishRetry(t, reply) ==
    /\ pc = "await"
    /\ summary_tasks[t].state = "called"
    /\ summary_tasks' = [summary_tasks EXCEPT
           ![t].state = IF reply.kind = "error" THEN "created" ELSE "done",
           ![t].failed = (reply.kind = "error"),
           ![t].result = summarize_text(summary_tasks[t].text, reply)]
    /\ UNCHANGED <<pc, num_pages, pure_vars, request_vars, extract_vars, sidx, aidx,
                   compose_vars>>

\* A task's request ends, with a content or with an exception, and
\* summarize_text returns.
TaskFinish(t, reply) ==
    /\ pc = "await"
    /\ summary_tasks[t].state = "called"
    /\ summary_tasks' = [summary_tasks EXCEPT
           ![t].state = "done",
           ![t].failed = (reply.kind = "error"),
           ![t].result = summarize_text(summary_tasks[t].text, reply)]
    /\ UNCHANGED <<pc, num_pages, pure_vars, request_vars, extract_vars, sidx, aidx, compose_vars>>

\* section.summary = await task, for the next pair of summary_tasks; an
\* exception of the task is re-raised by process_pdf_with_summaries.  The
\* coroutine is resumed by the event loop after the first step of every
\* task created before it suspended.
AwaitStep ==
    /\ pc = "await"
    /\ aidx <= Len(summary_tasks)
    /\ summary_tasks[aidx].state = "done"
    /\ \A u \in 1..Len(summary_tasks) : summary_tasks[u].state # "created"
    /\ IF summary_tasks[aidx].result.raised
       THEN /\ pc' = "error"
            /\ error' = WrapError("process_pdf_with_summaries",
                                  [raised_by |-> <<"summarize_text">>,
                                   diagnostic |-> "request failed"])
            /\ UNCHANGED <<sections, summary_writes, aidx>>
       ELSE /\ sections' = [sections EXCEPT
                   ![summary_tasks[aidx].section].summary = summary_tasks[aidx].result.value]
            /\ summary_writes' = Append(summary_writes,
                   SummaryWrite(summary_tasks[aidx].section, summary_tasks[aidx].result.value))
            /\ aidx' = aidx + 1
            /\ UNCHANGED <<pc, error>>
    /\ UNCHANGED <<num_pages, pure_vars, response, other_steps, page_num,
                   text_with_positions, idx, current_text,
                   current_position, nfrags, current_frags, groups, sidx,
                   summary_tasks, compose_vars>>

StartComposeEarly ==
    /\ pc = "await"
    /\ pc' = "compose"
    /\ cidx' = 0
    /\ writer_pages' = <<>>
    /\ UNCHANGED <<num_pages, pure_vars, request_vars, extract_vars, summary_vars,
                   output_buffer>>

\* Every task was awaited: the document is read again and a writer created.
StartCompose ==
    /\ pc = "await"
    /\ aidx > Len(summary_tasks)
    /\ pc' = "compose"
    /\ cidx' = 0
    /\ writer_pages' = <<>>
    /\ UNCHANGED <<num_pages, pure_vars, request_vars, extract_vars, summary_vars, output_buffer>>

\* ---------------------------------------------------------------- sidebar
\* The layout constants of create_summary_sidebar, in points.
SIDEBAR_WIDTH == 140
LEFT_MARGIN == 40
TOP_MARGIN == 40
BOX_SIZE == 10
BOX_MARGIN == 10
LINE_HEIGHT == 14
SECTION_SPACING == 20
TITLE_SIZE == 11
CONTENT_SIZE == 10
\* letter[1], the height of the page the sidebar is drawn on.
PAGE_HEIGHT == 792

\* "Title: " and "Summary: "
TitlePrefix == <<"T", "i", "t", "l", "e", ":", " ">>

SummaryPrefix == <<"S", "u", "m", "m", "a", "r", "y", ":", " ">>

\* The advance widths (per 1000 units of font size) of the standard fonts the
\* wrap measures with (Helvetica-Bold, Helvetica) and of those the lines are
\* drawn in (Times-Bold, Times-Roman), for the characters of the model.
CharWidth(font, c) ==
    IF font = "Helvetica-Bold"
    THEN CASE c \in {" ", "i", "l"} -> 278
           [] c \in {"t", ":"} -> 333
           [] c = "r" -> 389
           [] c \in {"a", "e", "s", "y"} -> 556
           [] c \in {"b", "o", "g", "n", "u", "T"} -> 611
           [] c \in {"E", "S"} -> 667
           [] c = "m" -> 889
           [] c = "W" -> 944
           [] OTHER -> 0
    ELSE IF font = "Times-Bold"
    THEN CASE c = " " -> 250
           [] c \in {"i", "l"} -> 278
           [] c \in {"t", ":"} -> 333
           [] c = "s" -> 389
           [] c \in {"r", "e"} -> 444
           [] c \in {"a", "o", "g", "y"} -> 500
           [] c \in {"b", "n", "u", "S"} -> 556
           [] c \in {"T", "E"} -> 667
           [] c = "m" -> 833
           [] c = "W" -> 1000
           [] OTHER -> 0
    ELSE IF font = "Times-Roman"
    THEN CASE c = " " -> 250
           [] c \in {"i", "l", "t", ":"} -> 278
           [] c = "r" -> 333
           [] c = "s" -> 389
           [] c \in {"a", "e"} -> 444
           [] c \in {"b", "o", "g", "n", "u", "y"} -> 500
           [] c = "S" -> 556
           [] c \in {"T", "E"} -> 611
           [] c = "m" -> 778
           [] c = "W" -> 944
           [] OTHER -> 0
    ELSE CASE c \in {"i", "l"} -> 222
           [] c \in {" ", "t", ":"} -> 278
           [] c = "r" -> 333
           [] c \in {"s", "y"} -> 500
           [] c \in {"a", "b", "e", "o", "g", "n", "u"} -> 556
           [] c = "T" -> 611
           [] c \in {"E", "S"} -> 667
           [] c = "m" -> 833
           [] c = "W" -> 944
           [] OTHER -> 0

\* c.stringWidth(text, font, size), times 1000.
StringWidth(text0, font, size) ==
    Eval(text0, LAMBDA text :
        LET W[k \in 0..Len(text)] ==
                IF k = 0 THEN 0 ELSE W[k - 1] + CharWidth(font, text[k]) * size
        IN  W[Len(text)])

\* The text column's left edge and the width available to a line.
TextX == LEFT_MARGIN + BOX_MARGIN + BOX_SIZE + 8

MaxWidth == SIDEBAR_WIDTH - (TextX - LEFT_MARGIN + 5)

WrapStepDropsLine(prev, word, font, size) ==
    Eval(prev.current_line \o (IF prev.current_line # <<>> THEN <<" ">> ELSE <<>>) \o word,
         LAMBDA test_line :
        IF StringWidth(test_line, font, size) <= MaxWidth * 1000
        THEN [current_line |-> test_line, wrapped |-> prev.wrapped]
        ELSE [current_line |-> word, wrapped |-> prev.wrapped])

\* One iteration of the wrap's loop: the line being filled and the lines
\* closed so far, after the word is taken.
WrapStep(prev, word, font, size) ==
    Eval(prev.current_line \o (IF prev.current_line # <<>> THEN <<" ">> ELSE <<>>) \o word,
         LAMBDA test_line :
        IF StringWidth(test_line, font, size) <= MaxWidth * 1000
        THEN [current_line |-> test_line, wrapped |-> prev.wrapped]
        ELSE [current_line |-> word,
              wrapped |-> IF prev.current_line # <<>>
                          THEN Append(prev.wrapped, prev.current_line)
                          ELSE prev.wrapped])

\* The wrap's state after the loop over the words.
WrapState(words0, font, size) ==
    Eval(words0, LAMBDA words :
        LET S[k \in 0..Len(words)] ==
                IF k = 0 THEN [current_line |-> <<>>, wrapped |-> <<>>]
                ELSE Eval(S[k - 1], LAMBDA prev : WrapStep(prev, words[k], font, size))
        IN  S[Len(words)])

WrapLoopNoFlush(words, font, size) == WrapState(words, font, size).wrapped

\* The greedy word wrap: the loop over the words, and the last line flushed.
WrapLoop(words, font, size) ==
    Eval(WrapState(words, font, size), LAMBDA end :
        IF end.current_line # <<>> THEN Append(end.wrapped, end.current_line)
        ELSE end.wrapped)

\* The wrap of the title: measured in Helvetica-Bold at TITLE_SIZE.
WrapTitle(title) == WrapLoop(Split(title), "Helvetica-Bold", TITLE_SIZE)

\* The wrap of the content: measured in Helvetica at CONTENT_SIZE.
WrapContent(content) == WrapLoop(Split(content), "Helvetica", CONTENT_SIZE)

\* The title and the content a summary is split into.
SummaryTitle(summary) == Remove(SplitLines(summary)[1], TitlePrefix)

SummaryContent(summary) ==
    IF Len(SplitLines(summary)) > 1
    THEN Remove(SplitLines(summary)[2], SummaryPrefix)
    ELSE summary

\* What the canvas is asked to draw, top to bottom: the operation, its
\* vertical position in tenths of a point, and the text or the number.
DrawOp(op, y, text, number) == [op |-> op, y |-> y, text |-> text, number |-> number]

DrawLinesOnOneBaseline(op, lines0, y0) ==
    Eval(lines0, LAMBDA lines : Eval(y0, LAMBDA y :
        [k \in 1..Len(lines) |-> DrawOp(op, y, lines[k], 0)]))

\* The drawString calls of a list of wrapped lines, from y downwards.
DrawLines(op, lines0, y0) ==
    Eval(lines0, LAMBDA lines : Eval(y0, LAMBDA y :
        [k \in 1..Len(lines) |-> DrawOp(op, y - (k - 1) * LINE_HEIGHT * 10, lines[k], 0)]))

\* The number drawn in the box of the entry at index i of the list (whose
\* section is sections[j]): number = str(i + 1).
SidebarNumber(i, j) == i + 1

\* y -= LINE_HEIGHT / 2, after the title lines, in tenths of a point.
TitleGap == (LINE_HEIGHT * 10) \div 2

ContentGapOneLine == LINE_HEIGHT * 10

\* y -= LINE_HEIGHT * 1.2, before the content lines, in tenths of a point.
ContentGap == LINE_HEIGHT * 12

\* What one iteration draws for an entry with a summary, at index i (from 0)
\* with the cursor at y: the drawing and the cursor afterwards.
DrawEntry(i, entry, y) ==
    Eval(WrapTitle(SummaryTitle(entry.section.summary)), LAMBDA wrapped_title :
    Eval(WrapContent(SummaryContent(entry.section.summary)), LAMBDA wrapped_content :
        LET box_y == y - BOX_SIZE * 10
            y1 == y - Len(wrapped_title) * LINE_HEIGHT * 10
            y2 == y1 - TitleGap
            y3 == y2 - ContentGap
            y4 == y3 - Len(wrapped_content) * LINE_HEIGHT * 10
        IN  [ops |-> <<DrawOp("box", box_y, <<>>, 0),
                       DrawOp("number", box_y + 25, <<>>, SidebarNumber(i, entry.j))>>
                     \o DrawLines("title", wrapped_title, y)
                     \o DrawLines("content", wrapped_content, y3),
             y |-> y4 - SECTION_SPACING * 10]))

SidebarEntryNoSkip(i, entry, y) == DrawEntry(i, entry, y)

\* One iteration of the loop over the summaries: an entry without a summary
\* is skipped by `continue`.
SidebarEntry(i, entry, y) ==
    IF entry.section.summary = <<>> THEN [ops |-> <<>>, y |-> y]
    ELSE DrawEntry(i, entry, y)

\* The loop of create_summary_sidebar over the list of (j, section), the
\* cursor starting below the top margin: everything drawn, and the cursor
\* at the end.
SidebarLayout(summaries0, page_height) ==
    Eval(summaries0, LAMBDA summaries :
        LET L[i \in 0..Len(summaries)] ==
                IF i = 0
                THEN [ops |-> <<>>, y |-> (page_height - (TOP_MARGIN + LINE_HEIGHT)) * 10]
                ELSE Eval(L[i - 1], LAMBDA before :
                     Eval(SidebarEntry(i - 1, summaries[i], before.y), LAMBDA e :
                         [ops |-> before.ops \o e.ops, y |-> e.y]))
        IN  L[Len(summaries)])

\* create_summary_sidebar: what it leaves on the canvas.
create_summary_sidebar(summaries, page_height) == SidebarLayout(summaries, page_height).ops

\* ------------------------------------------------------------ composition
\* The side of the number annotation's square.
NUMBER_BOX_SIZE == 16

create_highlight_annotation(page, rect) ==
    [subtype |-> "Highlight", rect |-> rect, contents |-> -1]

\* The annotation's /Contents is str(number): the number itself here.
create_number_annotation(page, number, position) ==
    [subtype |-> "Square",
     rect |-> <<position[1], position[2],
                position[1] + NUMBER_BOX_SIZE, position[2] + NUMBER_BOX_SIZE>>,
     contents |-> number]

SectionAnnotations(i, j, section) ==
    <<create_highlight_annotation(i, section.position),
      create_number_annotation(i, j,
          <<section.position[3] + 5, section.position[4] - 15>>)>>

\* The annotations the loop over enumerate(sections) collects for page i: a
\* highlight and a number annotation for every section of the list.
PageAnnotations(i, secs) ==
    LET F[j \in 0..Len(secs)] ==
            IF j = 0 THEN <<>>
            ELSE F[j - 1] \o SectionAnnotations(i, j - 1, secs[j])
    IN  F[Len(secs)]

PageSectionsReversed(i, secs) ==
    LET F[j \in 0..Len(secs)] ==
            IF j = 0 THEN <<>>
            ELSE (IF secs[j].page = i /\ secs[j].summary # <<>>
                  THEN <<[j |-> j - 1, section |-> secs[j]]>> ELSE <<>>) \o F[j - 1]
    IN  F[Len(secs)]

\* page_sections: the (j, section) of page i that have a summary, j from 0.
PageSections(i, secs) ==
    LET F[j \in 0..Len(secs)] ==
            IF j = 0 THEN <<>>
            ELSE F[j - 1] \o (IF secs[j].page = i /\ secs[j].summary # <<>>
                              THEN <<[j |-> j - 1, section |-> secs[j]]>> ELSE <<>>)
    IN  F[Len(secs)]

\* A page of the writer: the input page it was added from, the annotations
\* attached to it, the list the sidebar was created from, and the drawing
\* merged into it.
WriterPage(orig, annots) ==
    [orig |-> orig, annots |-> annots, page_sections |-> <<>>, sidebar |-> <<>>,
     merged |-> FALSE]

MergeSidebarAsNewPage(pages, i, page_sections, sidebar) ==
    Append(pages, [orig |-> -1, annots |-> <<>>, page_sections |-> page_sections,
                   sidebar |-> sidebar, merged |-> TRUE])

\* writer.pages[i].merge_page(sidebar_page)
MergeSidebar(pages, i, page_sections, sidebar) ==
    [pages EXCEPT ![i + 1].page_sections = page_sections,
                  ![i + 1].sidebar = sidebar,
                  ![i + 1].merged = TRUE]

\* One iteration of the loop over the pages: the page is added to the writer,
\* annotated, and merged with its sidebar when page_sections is not empty.
ComposePage ==
    /\ pc = "compose"
    /\ cidx < num_pages
    /\ LET i == cidx
           annotations == PageAnnotations(i, sections)
           page_sections == PageSections(i, sections)
           added == Append(writer_pages, WriterPage(i, annotations))
       IN  writer_pages' =
               IF page_sections # <<>>
               THEN MergeSidebar(added, i, page_sections,
                                 create_summary_sidebar(page_sections, PAGE_HEIGHT))
               ELSE added
    /\ cidx' = cidx + 1
    /\ UNCHANGED <<pc, num_pages, pure_vars, request_vars, extract_vars, summary_vars,
                   output_buffer>>

\* writer.write(output_buffer); the buffer is returned.
WriteOutput ==
    /\ pc = "compose"
    /\ cidx >= num_pages
    /\ output_buffer' = writer_pages
    /\ pc' = "done"
    /\ UNCHANGED <<num_pages, pure_vars, request_vars, extract_vars, summary_vars, cidx,
                   writer_pages>>

\* ----------------------------------------------- the summary-only view
\* What iterating the returned io.BytesIO yields: the lines of the written
\* file, bytes objects, at least the header line and the trailer line.
BufferLines(buffer) ==
    <<[bytes |-> "%PDF-1.3"]>> \o [k \in 1..Len(buffer) |-> [bytes |-> "obj"]]
        \o <<[bytes |-> "%%EOF"]>>

\* Whether the attributes the view reads exist on an item.
HasSectionAttributes(item) == {"text", "summary", "page", "position"} \subseteq DOMAIN item

\* The entry of the response for one item.
SectionEntry(section) ==
    [text |-> section.text, summary |-> section.summary, page |-> section.page + 1,
     position |-> section.position]

\* PDFSummarizerView.post after the upload was validated: the response with
\* the entries of what process_pdf_with_summaries returned, or, when it
\* raised or building an entry raised, the form with an error.
SummarizerViewPost ==
    /\ pc \in {"done", "error"}
    /\ response = NoResponse
    /\ response' =
           IF pc = "done"
           THEN LET returned == BufferLines(output_buffer)
                IN  IF \A k \in 1..Len(returned) : HasSectionAttributes(returned[k])
                    THEN [status |-> "200",
                          sections |-> [k \in 1..Len(returned) |-> SectionEntry(returned[k])]]
                    ELSE [status |-> "500", sections |-> <<>>]
           ELSE [status |-> "500", sections |-> <<>>]
    /\ UNCHANGED <<pc, num_pages, pure_vars, extract_vars, summary_vars, compose_vars,
                   error, summary_writes, other_steps>>

\* ----------------------------------------------------- the whole pipeline
\* A text of n one-letter words separated by single spaces.
Words(n) == [k \in 1..(2 * n - 1) |-> IF k % 2 = 1 THEN "a" ELSE " "]

\* The spans of the documents the pipeline is explored on: a text of 20
\* words and a blank one on one line, a text of 21 words on a line 20 away,
\* all without a font size.
PipelineSpans ==
    { [text |-> Words(SUMMARY_WORD_LIMIT), y |-> 75],
      [text |-> <<" ">>, y |-> 75],
      [text |-> Words(SUMMARY_WORD_LIMIT + 1), y |-> 95] }

PipelineXs == {10}
PipelineFontSizes == {0}

\* The contents the summarizer answers with: the two-line convention, a
\* single line with white space around it, and a blank answer.
Replies ==
    { APIContent(TitlePrefix \o <<"W", "\n">> \o SummaryPrefix \o <<"b", " ", "b">>),
      APIContent(<<" ", "a", " ">>),
      APIContent(<<" ">>),
      APIError }

VisitPipeline ==
    \E span \in PipelineSpans, x \in PipelineXs, fontSize \in PipelineFontSizes :
        Visit(span.text, x, span.y, fontSize)

ExtractFails == \E fault \in ParserFaults : ExtractFail(fault)

TaskCalls == \E t \in 1..Len(summary_tasks) : TaskCall(t)

TaskFinishes == \E t \in 1..Len(summary_tasks), reply \in Replies : TaskFinish(t, reply)

Next ==
    \/ NextPage
    \/ VisitPipeline
    \/ StartGrouping
    \/ GroupStep
    \/ FlushPage
    \/ ExtractFails
    \/ ScheduleStep
    \/ StartAwait
    \/ TaskCalls
    \/ TaskFinishes
    \/ AwaitStep
    \/ StartCompose
    \/ ComposePage
    \/ WriteOutput
    \/ SummarizerViewPost

Spec == Init /\ [][Next]_vars

\* --------------------------------------------- summarisation: the claims
\* The tasks created for sections[k].
TasksOf(k) == {t \in 1..Len(summary_tasks) : summary_tasks[t].section = k}

WordCount(text) == Len(Split(text))

\* C3: a section whose text has 20 words or fewer, exactly 20 included, never
\* has a summarizer task and ends with its text as its summary; a section of
\* 21 words or more has a task, whose call was issued by the end.
C3_ShortSectionsKeepTheirText ==
    /\ \A t \in 1..Len(summary_tasks) :
           WordCount(sections[summary_tasks[t].section].text) >= 21
    /\ pc = "done" =>
           \A k \in 1..Len(sections) :
               IF WordCount(sections[k].text) <= 20
               THEN sections[k].summary = sections[k].text /\ TasksOf(k) = {}
               ELSE \E t \in TasksOf(k) : summary_tasks[t].state = "done"

\* C3 witness: the pipeline ended with a section of exactly 20 words that
\* kept its text and a section of 21 words that was sent to the summarizer.
C3_Witness ==
    /\ pc = "done"
    /\ \E k \in 1..Len(sections) :
           /\ WordCount(sections[k].text) = 20
           /\ sections[k].summary = sections[k].text
           /\ TasksOf(k) = {}
    /\ \E k \in 1..Len(sections) :
           /\ WordCount(sections[k].text) = 21
           /\ TasksOf(k) # {}

\* C4 as the spec states it: when the call of one section failed, every
\* section ends with a non-empty summary and the failing one with the
\* sentinel.
C4_EverySummaryIsNonEmpty ==
    (pc = "done" /\ \E t \in 1..Len(summary_tasks) : summary_tasks[t].failed) =>
        /\ \A k \in 1..Len(sections) : sections[k].summary # <<>>
        /\ \A t \in 1..Len(summary_tasks) :
               summary_tasks[t].failed =>
                   sections[summary_tasks[t].section].summary = SENTINEL

\* C4: a failing summarizer call never aborts the batch and no exception
\* leaves summarize_text: every task returns a value, the sentinel when its
\* call failed, and at the end every section has been assigned: its own text
\* when no task was created for it, its task's value (the stripped reply, or
\* the sentinel) otherwise.
C4_FailureIsSwallowed ==
    /\ pc = "error" => error.raised_by[Len(error.raised_by)] # "summarize_text"
    /\ \A t \in 1..Len(summary_tasks) :
           summary_tasks[t].state = "done" =>
               /\ ~summary_tasks[t].result.raised
               /\ summary_tasks[t].failed => summary_tasks[t].result.value = SENTINEL
    /\ pc = "done" =>
           \A k \in 1..Len(sections) :
               IF TasksOf(k) = {}
               THEN sections[k].summary = sections[k].text
               ELSE \A t \in TasksOf(k) :
                        /\ sections[k].summary = summary_tasks[t].result.value
                        /\ summary_tasks[t].failed => sections[k].summary = SENTINEL

\* C4 witness: the pipeline ended after the call of one section failed and
\* the call of another one succeeded.
C4_Witness ==
    /\ pc = "done"
    /\ \E t, u \in 1..Len(summary_tasks) :
           /\ summary_tasks[t].failed
           /\ sections[summary_tasks[t].section].summary = SENTINEL
           /\ ~summary_tasks[u].failed
           /\ sections[summary_tasks[u].section].summary # SENTINEL

\* ----------------------------------------------- composition: the claims
\* Fragment f comes before fragment g in reading order: an earlier page, or
\* the same page and an earlier span.
Before(f, g) == f.page < g.page \/ (f.page = g.page /\ f.idx < g.idx)

\* The annotations of a writer page that have the given subtype, in order.
AnnotsOf(p, subtype) == SelectSeq(p.annots, LAMBDA a : a.subtype = subtype)

\* The draw operations of a sidebar that have the given kind, in order.
OpsOf(sidebar, op) == SelectSeq(sidebar, LAMBDA o : o.op = op)

\* The indices (from 1) of the sections located on page i.
SectionsOn(i) == {k \in 1..Len(sections) : sections[k].page = i}

\* C5: the index of a section in the list grows with (page, reading order):
\* the k-th section is the k-th accumulator closed, every fragment of an
\* earlier section comes before every fragment of a later one, and the
\* entries a page's sidebar is created from are listed, and drawn from the
\* top downwards, in ascending section index.
C5_SectionIdsAscendInReadingOrder ==
    /\ Len(sections) <= Len(EmittedGroups)
    /\ \A k \in 1..Len(sections) :
           /\ sections[k].page = EmittedGroups[k].page
           /\ Encloses(sections[k].position, EmittedGroups[k].frags[1].position)
           /\ sections[k].position[2] = MinY0(EmittedGroups[k].frags,
                                              Len(EmittedGroups[k].frags))
    /\ \A a, b \in 1..Len(EmittedGroups) :
           a < b => \A f \in 1..Len(EmittedGroups[a].frags),
                       g \in 1..Len(EmittedGroups[b].frags) :
                        Before(EmittedGroups[a].frags[f], EmittedGroups[b].frags[g])
    /\ \A a, b \in 1..Len(sections) : a < b => sections[a].page <= sections[b].page
    /\ \A p \in 1..Len(writer_pages) :
           LET entries == writer_pages[p].page_sections
               boxes   == OpsOf(writer_pages[p].sidebar, "box")
           IN  /\ \A a, b \in 1..Len(entries) : a < b => entries[a].j < entries[b].j
               /\ \A a \in 1..Len(entries) :
                      entries[a].section = sections[entries[a].j + 1]
               /\ Len(boxes) = Len(entries)
               /\ \A a, b \in 1..Len(boxes) : a < b => boxes[a].y > boxes[b].y

\* C5 witness: two sections of the first page and one of the second, the
\* first page's sidebar drawn with two entries.
C5_Witness ==
    /\ pc = "done"
    /\ Len(sections) = 3
    /\ sections[2].page = 0
    /\ sections[3].page = 1
    /\ sections[1].position # sections[2].position
    /\ Len(output_buffer[1].page_sections) = 2
    /\ Len(OpsOf(output_buffer[1].sidebar, "box")) = 2

\* C7: the writer holds one page per input page read so far, page i being
\* input page i, and the output written at the end has exactly the input's
\* pages in their order, whether or not a sidebar was merged into them.
C7_OutputKeepsThePages ==
    /\ pc = "compose" =>
           /\ Len(writer_pages) = cidx
           /\ \A k \in 1..Len(writer_pages) : writer_pages[k].orig = k - 1
    /\ pc = "done" =>
           /\ Len(output_buffer) = num_pages
           /\ \A k \in 1..num_pages : output_buffer[k].orig = k - 1

\* C7 witness: a two-page document was written, a sidebar merged into its
\* first page and none into its second.
C7_Witness ==
    /\ pc = "done"
    /\ num_pages = 2
    /\ Len(output_buffer) = 2
    /\ output_buffer[1].merged
    /\ ~output_buffer[2].merged

\* C9: the annotations attached to page i are one highlight and one marker
\* for each section located on page i and none for a section of another
\* page, each highlight's rectangle being the position of its section.
C9_AnnotationsBelongToThePage ==
    \A p \in 1..Len(writer_pages) :
        LET highlights == AnnotsOf(writer_pages[p], "Highlight")
            markers    == AnnotsOf(writer_pages[p], "Square")
        IN  /\ Len(highlights) = Cardinality(SectionsOn(p - 1))
            /\ Len(markers) = Cardinality(SectionsOn(p - 1))
            /\ \A h \in 1..Len(highlights) :
                   \E k \in SectionsOn(p - 1) : highlights[h].rect = sections[k].position

\* C10: for every section with a sidebar entry, the number of the marker
\* attached for that section on its page is the number drawn beside its
\* entry in the sidebar, and that number counts from 1.
C10_MarkerNumberIsSidebarNumber ==
    \A p \in 1..Len(writer_pages) :
        LET entries == writer_pages[p].page_sections
            numbers == OpsOf(writer_pages[p].sidebar, "number")
            markers == AnnotsOf(writer_pages[p], "Square")
        IN  \A a \in 1..Len(entries) :
                /\ numbers[a].number >= 1
                /\ markers[entries[a].j + 1].contents = numbers[a].number

\* ------------------------------------------------- the word wrap alone
\* The strings the wrap is explored on: every string of wide letters and
\* spaces up to MaxLen characters, which reaches past the column's width.
WrapChars == {"W", " "}

WrapTexts == UNION {[1..n -> WrapChars] : n \in 0..MaxLen}

InitWrap ==
    /\ pc = "page"
    /\ num_pages = 0
    /\ page_num = 0
    /\ text_with_positions = <<>>
    /\ idx = 1
    /\ current_text = <<>>
    /\ current_position = None
    /\ sections = <<>>
    /\ nfrags = 0
    /\ current_frags = <<>>
    /\ groups = <<>>
    /\ sidx = 1
    /\ summary_tasks = <<>>
    /\ aidx = 1
    /\ cidx = 0
    /\ writer_pages = <<>>
    /\ output_buffer = None
    /\ wrap_text \in WrapTexts
    /\ wrap_kind = "none"
    /\ wrapped = <<>>
    /\ error = NoError
    /\ response = NoResponse
    /\ summary_writes = <<>>
    /\ other_steps = 0
    /\ given_summaries = <<>>
    /\ canvas = [ops |-> <<>>, y |-> 0]
    /\ drawn = FALSE

\* The title's wrap loop runs on the string.
ApplyWrapTitle ==
    /\ wrap_kind = "none"
    /\ wrap_kind' = "title"
    /\ wrapped' = WrapTitle(wrap_text)
    /\ UNCHANGED <<pc, num_pages, extract_vars, summary_vars, compose_vars,
                   wrap_text, sidebar_vars, request_vars>>

\* The content's wrap loop runs on the string.
ApplyWrapContent ==
    /\ wrap_kind = "none"
    /\ wrap_kind' = "content"
    /\ wrapped' = WrapContent(wrap_text)
    /\ UNCHANGED <<pc, num_pages, extract_vars, summary_vars, compose_vars,
                   wrap_text, sidebar_vars, request_vars>>

NextWrap ==
    \/ ApplyWrapTitle
    \/ ApplyWrapContent

SpecWrap == InitWrap /\ [][NextWrap]_vars

\* The width the wrap loop that ran measures the string with, times 1000.
WrapWidth(text) ==
    IF wrap_kind = "title" THEN StringWidth(text, "Helvetica-Bold", TITLE_SIZE)
    ELSE StringWidth(text, "Helvetica", CONTENT_SIZE)

Fits(text) == WrapWidth(text) <= MaxWidth * 1000

\* The words of a list joined by single spaces.
RECURSIVE JoinWords(_)
JoinWords(words) ==
    IF words = <<>> THEN <<>>
    ELSE IF Len(words) = 1 THEN words[1]
    ELSE words[1] \o <<" ">> \o JoinWords(Tail(words))

\* C6 as the spec states it: a string that fits the column is wrapped into
\* exactly one line, the trimmed string.
C6_FittingStringIsOneTrimmedLine ==
    (wrap_kind # "none" /\ Fits(wrap_text)) => wrapped = <<Strip(wrap_text)>>

\* C6: a string with at least one word that fits the column is wrapped, by
\* the title's loop and by the content's, into exactly one line: its words
\* joined by single spaces, which is the trimmed string when single spaces
\* separate its words; a string without a word is wrapped into no line.
C6_FittingStringIsOneLineOfItsWords ==
    (wrap_kind # "none" /\ Fits(wrap_text)) =>
        /\ Split(wrap_text) = <<>> => wrapped = <<>>
        /\ Split(wrap_text) # <<>> =>
               /\ wrapped = <<JoinWords(Split(wrap_text))>>
               /\ Len(Strip(wrap_text)) = Len(JoinWords(Split(wrap_text))) =>
                      wrapped = <<Strip(wrap_text)>>

\* C6 witness: a string of two words with white space around it fits the
\* column and was wrapped into the one line of its trimmed text.
C6_Witness ==
    /\ wrap_kind # "none"
    /\ Fits(wrap_text)
    /\ Len(Split(wrap_text)) = 2
    /\ Len(Strip(wrap_text)) < Len(wrap_text)
    /\ wrapped = <<Strip(wrap_text)>>

\* --------------------------------------------- sidebar split: the claim
\* A line without the prefix it starts with.
WithoutPrefix(line, prefix) ==
    IF Len(line) >= Len(prefix) /\ SubSeq(line, 1, Len(prefix)) = prefix
    THEN SubSeq(line, Len(prefix) + 1, Len(line))
    ELSE line

\* C11: every summary a sidebar entry is drawn for is split by the two-line
\* convention: of two lines, the title is line 1 without 'Title: ' and the
\* body is line 2 without 'Summary: '; of a summary without a line break the
\* title is empty and the body is the whole string, so that the sidebar of a
\* page with one such entry has no title line.
C11_SummaryIsSplitByTheConvention ==
    \A p \in 1..Len(writer_pages) :
        \A a \in 1..Len(writer_pages[p].page_sections) :
            LET summary == writer_pages[p].page_sections[a].section.summary
                parts   == SplitLines(summary)
            IN  /\ Len(parts) = 2 =>
                       /\ SummaryTitle(summary) = WithoutPrefix(parts[1], TitlePrefix)
                       /\ SummaryContent(summary) = WithoutPrefix(parts[2], SummaryPrefix)
                /\ Len(parts) = 1 =>
                       /\ SummaryTitle(summary) = <<>>
                       /\ SummaryContent(summary) = summary
                       /\ Len(writer_pages[p].page_sections) = 1 =>
                              OpsOf(writer_pages[p].sidebar, "title") = <<>>

\* ----------------------------------------------- concurrency: the claims
\* C12: when the coroutine waits on a task, a task has been created for
\* every section of more than 20 words, so every call is issued before any
\* result is waited for; no result is taken before every call has started;
\* and the composition begins only when every task is done and its value is
\* stored in its section, whatever the order the calls completed in.
C12_AllCallsIssuedThenAllAwaited ==
    /\ pc = "await" =>
           \A k \in 1..Len(sections) :
               WordCount(sections[k].text) > 20 => TasksOf(k) # {}
    /\ aidx > 1 => \A t \in 1..Len(summary_tasks) : summary_tasks[t].state # "created"
    /\ pc \in {"compose", "done"} =>
           \A t \in 1..Len(summary_tasks) :
               /\ summary_tasks[t].state = "done"
               /\ sections[summary_tasks[t].section].summary = summary_tasks[t].result.value

\* C12 witness: the composition began after two calls completed with
\* different results, both stored.
C12_Witness ==
    /\ pc = "compose"
    /\ Len(summary_tasks) >= 2
    /\ summary_tasks[1].result.value # summary_tasks[2].result.value
    /\ sections[summary_tasks[1].section].summary = summary_tasks[1].result.value
    /\ sections[summary_tasks[2].section].summary = summary_tasks[2].result.value

\* C16: the summarizer is called at most once by a task and there is at
\* most one task per section; when the awaiting is over, every section of
\* more than 20 words has had exactly one call and no other section any,
\* and a failed call was not repeated: its section holds the sentinel.
C16_OneCallPerLongSection ==
    /\ \A k \in 1..Len(sections) : Cardinality(TasksOf(k)) <= 1
    /\ \A t \in 1..Len(summary_tasks) :
           /\ summary_tasks[t].calls = (IF summary_tasks[t].state = "created" THEN 0 ELSE 1)
           /\ summary_tasks[t].failed => summary_tasks[t].state = "done"
    /\ pc \in {"compose", "done"} =>
           /\ \A k \in 1..Len(sections) :
                  IF WordCount(sections[k].text) > 20
                  THEN \E t \in TasksOf(k) : summary_tasks[t].calls = 1
                  ELSE TasksOf(k) = {}
           /\ \A t \in 1..Len(summary_tasks) :
                  summary_tasks[t].failed =>
                      sections[summary_tasks[t].section].summary = SENTINEL

\* C16 witness: the run ended with a section whose only call failed.
C16_Witness ==
    /\ pc = "done"
    /\ \E t \in 1..Len(summary_tasks) :
           /\ summary_tasks[t].failed
           /\ summary_tasks[t].calls = 1
           /\ TasksOf(summary_tasks[t].section) = {t}
           /\ sections[summary_tasks[t].section].summary = SENTINEL

\* ----------------------------------------------------- the view: the claim
\* C13: when process_pdf_with_summaries succeeded, the response of
\* PDFSummarizerView.post is a success whose sections list has one entry per
\* section, with the section's text, summary and position and its page
\* plus 1.
C13_ResponseListsTheSections ==
    (pc = "done" /\ response # NoResponse) =>
        /\ response.status = "200"
        /\ Len(response.sections) = Len(sections)
        /\ \A k \in 1..Len(response.sections) :
               /\ response.sections[k].text = sections[k].text
               /\ response.sections[k].summary = sections[k].summary
               /\ response.sections[k].page = sections[k].page + 1
               /\ response.sections[k].position = sections[k].position

\* ------------------------------------------- extraction failure: the claim
\* C14: when extraction fails, process_pdf_with_summaries ends with an
\* exception that carries the parser's diagnostic; no output buffer is
\* returned, no summarizer task was created and no page was composed.
C14_ExtractionFailureIsFatal ==
    (pc = "error" /\ error.raised_by[Len(error.raised_by)] = "extract_text_with_positions") =>
        /\ error.raised_by[1] = "process_pdf_with_summaries"
        /\ error.diagnostic \in ParserFaults
        /\ output_buffer = None
        /\ summary_tasks = <<>>
        /\ sidx = 1
        /\ writer_pages = <<>>
        /\ cidx = 0

\* C14 witness: the parser failed on the second page, after the first page
\* gave a section.
C14_Witness ==
    /\ pc = "error"
    /\ error.raised_by = <<"process_pdf_with_summaries", "extract_text_with_positions">>
    /\ error.diagnostic \in ParserFaults
    /\ page_num = 1
    /\ sections # <<>>

\* -------------------------------------------------- the sidebar alone
\* The most entries of a list the sidebar is drawn for on its own.
MaxEntries == 3

\* A body of n words of six W, two of which do not fit on a line.
LongBody(n) == [k \in 1..(7 * n - 1) |-> IF k % 7 = 0 THEN " " ELSE "W"]

\* The summaries of the lists: none, one line, the two-line convention,
\* two lines whose title wraps into two lines, and a body of thirty lines,
\* two of which fill the page.
SidebarSummaries ==
    { <<>>,
      <<"a">>,
      TitlePrefix \o <<"W", "\n">> \o SummaryPrefix \o <<"b", " ", "b">>,
      TitlePrefix \o <<"W", "W", "W", "W", "W", "W", " ", "W", "W", "W", "W", "W", "W", "\n">>
          \o SummaryPrefix \o <<"b">>,
      TitlePrefix \o <<"W", "\n">> \o SummaryPrefix \o LongBody(30) }

\* The lists of (j, section): the sections of one page, j counting from 0.
SidebarLists ==
    UNION {[1..n -> SidebarSummaries] : n \in 0..MaxEntries}

SummariesOf(list) ==
    [k \in 1..Len(list) |->
        [j |-> k - 1,
         section |-> [text |-> <<"a">>, page |-> 0, position |-> <<0, 0, 100, 50>>,
                      summary |-> list[k]]]]

InitSidebar ==
    /\ pc = "page"
    /\ num_pages = 0
    /\ page_num = 0
    /\ text_with_positions = <<>>
    /\ idx = 1
    /\ current_text = <<>>
    /\ current_position = None
    /\ sections = <<>>
    /\ nfrags = 0
    /\ current_frags = <<>>
    /\ groups = <<>>
    /\ sidx = 1
    /\ summary_tasks = <<>>
    /\ aidx = 1
    /\ cidx = 0
    /\ writer_pages = <<>>
    /\ output_buffer = None
    /\ wrap_text = <<>>
    /\ wrap_kind = "none"
    /\ wrapped = <<>>
    /\ error = NoError
    /\ response = NoResponse
    /\ summary_writes = <<>>
    /\ other_steps = 0
    /\ \E list \in SidebarLists : given_summaries = SummariesOf(list)
    /\ canvas = [ops |-> <<>>, y |-> 0]
    /\ drawn = FALSE

\* create_summary_sidebar(c, summaries, page_height) runs and returns.
DrawSidebar ==
    /\ ~drawn
    /\ canvas' = SidebarLayout(given_summaries, PAGE_HEIGHT)
    /\ drawn' = TRUE
    /\ UNCHANGED <<pc, num_pages, extract_vars, summary_vars, compose_vars, wrap_vars,
                   request_vars, given_summaries>>

NextSidebar == DrawSidebar

SpecSidebar == InitSidebar /\ [][NextSidebar]_vars

\* The entries of a list that have a summary.
WithSummary(list) == SelectSeq(list, LAMBDA e : e.section.summary # <<>>)

\* A drawing without the numbers written in its boxes.
Unnumbered(ops) == [k \in 1..Len(ops) |-> [ops[k] EXCEPT !.number = 0]]

\* C15: create_summary_sidebar returns for every list, the empty one
\* included, and an entry with an empty summary is skipped: the drawing has
\* one box per entry with a summary, and, numbers apart, the drawing and the
\* cursor are those of the list without the entries that have no summary.
C15_EmptySummariesAreSkipped ==
    drawn =>
        /\ Len(OpsOf(canvas.ops, "box")) = Len(WithSummary(given_summaries))
        /\ WithSummary(given_summaries) = <<>> =>
               /\ canvas.ops = <<>>
               /\ canvas.y = (PAGE_HEIGHT - (TOP_MARGIN + LINE_HEIGHT)) * 10
        /\ Unnumbered(canvas.ops) =
               Unnumbered(SidebarLayout(WithSummary(given_summaries), PAGE_HEIGHT).ops)
        /\ canvas.y = SidebarLayout(WithSummary(given_summaries), PAGE_HEIGHT).y

\* C15 witness: a list of three entries, the middle one without a summary,
\* was drawn with two boxes.
C15_Witness ==
    /\ drawn
    /\ Len(given_summaries) = 3
    /\ given_summaries[1].section.summary # <<>>
    /\ given_summaries[2].section.summary = <<>>
    /\ given_summaries[3].section.summary # <<>>
    /\ Len(OpsOf(canvas.ops, "box")) = 2

\* ----------------------------------------------- the sidebar: the cursor

\* The positions in a drawing where an entry starts: its box.
EntryStarts(ops) == SelectSeq(Indices(ops), LAMBDA k : ops[k].op = "box")

\* The drawString calls of one kind in the e-th entry of a drawing, in order.
EntryLines(ops, e, kind) ==
    LET starts == EntryStarts(ops)
        first == starts[e]
        last == IF e < Len(starts) THEN starts[e + 1] - 1 ELSE Len(ops)
    IN  SelectSeq([k \in 1..(last - first + 1) |-> ops[first + k - 1]],
                  LAMBDA o : o.op = kind)

\* The cursor at which the e-th entry of a drawing started: its box hangs
\* BOX_SIZE below it.
CursorAt(ops, e) == ops[EntryStarts(ops)[e]].y + BOX_SIZE * 10

\* The drawing on the canvas follows a cursor that starts one line height
\* below the top margin and, for each entry with t title lines and b body
\* lines, writes the title lines one line height apart from the cursor,
\* leaves half a line height and `lead` more, writes the body lines one line
\* height apart, and leaves the inter-section spacing.
CursorFollows(lead) ==
    LET ops == canvas.ops
        n == Len(EntryStarts(ops))
        line == LINE_HEIGHT * 10
        Advance(e) == Len(EntryLines(ops, e, "title")) * line + line \div 2 + lead
                      + Len(EntryLines(ops, e, "content")) * line + SECTION_SPACING * 10
    IN  /\ n > 0 => CursorAt(ops, 1) = (PAGE_HEIGHT - TOP_MARGIN - LINE_HEIGHT) * 10
        /\ n = 0 => canvas.y = (PAGE_HEIGHT - TOP_MARGIN - LINE_HEIGHT) * 10
        /\ \A e \in 1..n :
               LET titles == EntryLines(ops, e, "title")
                   contents == EntryLines(ops, e, "content")
               IN  /\ \A k \in 1..Len(titles) :
                          titles[k].y = CursorAt(ops, e) - (k - 1) * line
                   /\ \A k \in 1..Len(contents) :
                          contents[k].y = CursorAt(ops, e) - Len(titles) * line
                                          - line \div 2 - lead - (k - 1) * line
                   /\ IF e < n THEN CursorAt(ops, e + 1) = CursorAt(ops, e) - Advance(e)
                      ELSE canvas.y = CursorAt(ops, e) - Advance(e)

\* C19 as stated: per entry the cursor moves by t line heights, half a line
\* height, b line heights and the inter-section spacing, with no other
\* advance between title and body.
C19_CursorAdvanceAsStated == drawn => CursorFollows(0)

\* C19: per entry the cursor moves by t line heights, half a line height,
\* 1.2 line heights more before the body, b line heights and the
\* inter-section spacing, starting one line height below the top margin.
C19_CursorAdvance == drawn => CursorFollows(LINE_HEIGHT * 12)

\* C19 witness: a drawing of two entries or more, one of them with a title
\* of two lines and a body.
C19_Witness ==
    /\ drawn
    /\ Len(EntryStarts(canvas.ops)) >= 2
    /\ \E e \in 1..Len(EntryStarts(canvas.ops)) :
           /\ Len(EntryLines(canvas.ops, e, "title")) = 2
           /\ Len(EntryLines(canvas.ops, e, "content")) >= 1
           /\ e < Len(EntryStarts(canvas.ops))

\* --------------------------------------------- the life of a section

\* The assignments made to the summary of sections[k], in order.
WritesOf(k) == SelectSeq(summary_writes, LAMBDA w : w.section = k)

\* The summary of every section was assigned at most once; it is empty
\* until then and is the assigned value afterwards, which is the section's
\* text or the result of a call made with the section's text; once
\* composition starts every summary has been assigned.
SummaryAssignedOnce ==
    \A k \in 1..Len(sections) :
        /\ Len(WritesOf(k)) <= 1
        /\ WritesOf(k) = <<>> => sections[k].summary = <<>>
        /\ WritesOf(k) # <<>> =>
               /\ sections[k].summary = WritesOf(k)[1].value
               /\ IF TasksOf(k) = {}
                  THEN /\ ~needs_summary(sections[k].text)
                       /\ WritesOf(k)[1].value = sections[k].text
                  ELSE \A t \in TasksOf(k) :
                           /\ summary_tasks[t].text = sections[k].text
                           /\ summary_tasks[t].state = "done"
                           /\ WritesOf(k)[1].value = summary_tasks[t].result.value
        /\ pc \in {"compose", "done"} => Len(WritesOf(k)) = 1

\* A step creates sections with an empty summary, changes no text, page or
\* position of a section, and changes no summary that was assigned or while
\* the output is composed.
SectionsAreKept ==
    /\ Len(sections') >= Len(sections)
    /\ \A k \in 1..Len(sections) :
           /\ sections'[k].text = sections[k].text
           /\ sections'[k].page = sections[k].page
           /\ sections'[k].position = sections[k].position
           /\ (WritesOf(k) # <<>> \/ pc \in {"compose", "done"}) =>
                  sections'[k].summary = sections[k].summary
    /\ \A k \in (Len(sections) + 1)..Len(sections') : sections'[k].summary = <<>>

\* C18: a section's summary is empty at creation, is assigned exactly once
\* (to its text, or to the result of the call made with its text), and is
\* not written again by layout or composition; its text, page and position
\* never change.
C18_SummaryAssignedExactlyOnce == []SummaryAssignedOnce /\ [][SectionsAreKept]_vars

\* C18 witness: the output was composed from a short section and two
\* summarised sections whose calls gave different results.
C18_Witness ==
    /\ pc = "done"
    /\ Len(summary_writes) = Len(sections)
    /\ \E k \in 1..Len(sections) : TasksOf(k) = {} /\ sections[k].summary = sections[k].text
    /\ \E t, u \in 1..Len(summary_tasks) :
           /\ t < u
           /\ summary_tasks[t].result.value # summary_tasks[u].result.value
           /\ sections[summary_tasks[t].section].summary = summary_tasks[t].result.value
           /\ sections[summary_tasks[u].section].summary = summary_tasks[u].result.value

\* ------------------------------------- the event loop and other requests

MaxOtherSteps == 1

\* The stages of process_pdf_with_summaries that block in pypdf and
\* reportlab: extraction, and composition with the writing of the output.
BlockingStages == {"page", "visit", "group", "compose"}

\* The thread of the event loop is free when the coroutine of the request is
\* suspended in an await (on the executor future of the extraction, or on a
\* summary task) or has returned; it is held while the coroutine runs:
\* through the scheduling loop and through everything after the last await.
LoopIsFree == pc \notin {"schedule", "compose"}

\* The coroutine of another request is resumed by the event loop and runs up
\* to its next await.
OtherRequestStep ==
    /\ LoopIsFree
    /\ other_steps < MaxOtherSteps
    /\ other_steps' = other_steps + 1
    /\ UNCHANGED <<pc, num_pages, extract_vars, summary_vars, compose_vars, pure_vars,
                   error, response, summary_writes>>

NextLoop ==
    \/ Next
    \/ OtherRequestStep

\* The request together with another request on the same event loop.
SpecLoop == Init /\ [][NextLoop]_vars

\* C17: while the request is extracting or composing, the coroutine of
\* another request that has steps to take can take one.
C17_BlockingStagesLeaveTheLoopFree ==
    (pc \in BlockingStages /\ other_steps < MaxOtherSteps) => ENABLED OtherRequestStep

\* --------------------------------------- the wrap: the width of a line

\* The font set on the canvas when the lines of the wrap that ran are
\* drawn: c.setFont("Times-Bold", TITLE_SIZE) before the title,
\* c.setFont("Times-Roman", CONTENT_SIZE) before the content.
DrawnFont == IF wrap_kind = "title" THEN "Times-Bold" ELSE "Times-Roman"

DrawnSize == IF wrap_kind = "title" THEN TITLE_SIZE ELSE CONTENT_SIZE

\* The width of a line as c.drawString renders it, times 1000.
DrawnWidth(line) == StringWidth(line, DrawnFont, DrawnSize)

\* C20: every line of the wrap, of the title or of the content, is at most
\* max_width wide in the font and size it is drawn in.
C20_EveryLineFitsAsDrawn ==
    wrap_kind # "none" =>
        \A k \in 1..Len(wrapped) : DrawnWidth(wrapped[k]) <= MaxWidth * 1000

\* ------------------------------------------- the sidebar: no overlap

\* The lines of text of a drawing, in the order they were drawn.
TextOps(ops) == SelectSeq(ops, LAMBDA o : o.op \in {"title", "content"})

\* The font size a line is drawn in.
OpSize(o) == IF o.op = "title" THEN TITLE_SIZE ELSE CONTENT_SIZE

\* Bounds, in tenths of a point, of what a drawing operation covers: a box
\* from its lower edge up to BOX_SIZE above it, a line of text at most its
\* font size above and below its baseline.
OpTop(o) == IF o.op = "box" THEN o.y + BOX_SIZE * 10 ELSE o.y + OpSize(o) * 10

OpBottom(o) == IF o.op = "box" THEN o.y ELSE o.y - OpSize(o) * 10

\* The boxes and lines of the e-th entry of a drawing.
EntryOps(ops, e) == EntryLines(ops, e, "box") \o EntryLines(ops, e, "title")
                        \o EntryLines(ops, e, "content")

\* The last line of text drawn before the e-th entry, if there is one.
LinesBefore(ops, e) ==
    TextOps([k \in 1..(EntryStarts(ops)[e] - 1) |-> ops[k]])

\* C21: the baseline of every line of text is strictly lower than that of
\* every line drawn before it, and the box and the lines of an entry lie
\* entirely below the last line of the entries drawn before it, also when
\* the cursor has left the page.
C21_LaidOutDownwardsWithoutOverlap ==
    drawn =>
        LET ops == canvas.ops
            lines == TextOps(ops)
        IN  /\ \A k \in 1..(Len(lines) - 1) : lines[k + 1].y < lines[k].y
            /\ \A e \in 1..Len(EntryStarts(ops)) :
                   LinesBefore(ops, e) # <<>> =>
                       LET last == LinesBefore(ops, e)[Len(LinesBefore(ops, e))]
                       IN  \A k \in 1..Len(EntryOps(ops, e)) :
                               OpTop(EntryOps(ops, e)[k]) < OpBottom(last)

\* C21 witness: a drawing whose cursor left the page, with an entry that
\* starts below the lower edge of the page after lines drawn on the page.
C21_Witness ==
    /\ drawn
    /\ canvas.y < 0
    /\ \E e \in 2..Len(EntryStarts(canvas.ops)) :
           /\ CursorAt(canvas.ops, e) < 0
           /\ LinesBefore(canvas.ops, e) # <<>>
           /\ Len(EntryLines(canvas.ops, e, "title")) >= 1
           /\ Len(EntryLines(canvas.ops, e, "content")) >= 1

\* ------------------------------------------- the text of the sections

\* The pages that gave a fragment to a closed accumulator.
PagesWithFragments == {groups[g].page : g \in {h \in 1..Len(groups) : groups[h].frags # <<>>}}

\* C22: a page without fragments gives no section, whatever the other pages
\* give, and the text of every section is trimmed and not empty.
C22_SectionsHaveText ==
    \A k \in 1..Len(sections) :
        /\ sections[k].page \in PagesWithFragments
        /\ sections[k].text = Strip(sections[k].text)
        /\ sections[k].text # <<>>

\* ------------------------------------------ the wrap: the words kept

\* The words of a list of lines, read line by line.
WordsOfLines(lines) ==
    LET W[k \in 0..Len(lines)] == IF k = 0 THEN <<>> ELSE W[k - 1] \o Split(lines[k])
    IN  W[Len(lines)]

\* C23: the words of the lines the wrap produces, of the title's loop and
\* of the content's, are the words of the string in their order, each once
\* and whole, and no line is empty.
C23_WrapKeepsTheWords ==
    wrap_kind # "none" =>
        /\ WordsOfLines(wrapped) = Split(wrap_text)
        /\ \A k \in 1..Len(wrapped) : wrapped[k] # <<>> /\ Split(wrapped[k]) # <<>>

\* C23 witness: a string of three words was wrapped into two lines, the
\* first of two words.
C23_Witness ==
    /\ wrap_kind # "none"
    /\ Len(Split(wrap_text)) = 3
    /\ Len(wrapped) = 2
    /\ Len(Split(wrapped[1])) = 2
    /\ WordsOfLines(wrapped) = Split(wrap_text)

====
